---- MODULE Spec2Model ----
(***************************************************************************)
(* Model of the IPMI API gateway: configuration resolution, the ipmitool   *)
(* runner, the per-server operations and the multi-server dispatcher       *)
(* (src/src/services/ipmi_service.py), and the module-level services of    *)
(* the controller (src/src/controllers/ipmi_controller.py).                *)
(*                                                                         *)
(* Python strings are sequences of symbols (a symbol is a TLA+ string      *)
(* standing for one or more characters that the code never looks inside),  *)
(* so that split, strip and join are computed, not assumed.  The empty     *)
(* string is << >>.  Python's None is the reserved one-symbol value None.  *)
(* A Python dict is the sequence of its <<key, value>> pairs in insertion  *)
(* order.                                                                  *)
(***************************************************************************)
EXTENDS Integers, Sequences, FiniteSets, TLC

VARIABLES fs, environ, phase, multi_server_service, ipmi_service, last

vars == <<fs, environ, phase, multi_server_service, ipmi_service, last>>

----------------------------------------------------------------------------
(* Strings *)

None == <<"<None>">>

Str(x) == <<x>>

\* Python truthiness of an Optional[str]: None and '' are falsy.
Truthy(s) == s /= None /\ s /= <<>>

Whitespace == {" ", "\n", "\t"}

RECURSIVE LStrip(_)
LStrip(s) == IF s /= <<>> /\ Head(s) \in Whitespace THEN LStrip(Tail(s)) ELSE s

RECURSIVE RStrip(_)
RStrip(s) ==
    IF s /= <<>> /\ s[Len(s)] \in Whitespace
    THEN RStrip(SubSeq(s, 1, Len(s) - 1))
    ELSE s

\* str.strip()
Strip(s) == RStrip(LStrip(s))

\* str.split(sep) for a one-symbol separator: always at least one part.
RECURSIVE SplitAcc(_, _, _, _)
SplitAcc(s, sep, cur, acc) ==
    IF s = <<>> THEN Append(acc, cur)
    ELSE IF Head(s) = sep THEN SplitAcc(Tail(s), sep, <<>>, Append(acc, cur))
    ELSE SplitAcc(Tail(s), sep, Append(cur, Head(s)), acc)

Split(s, sep) == SplitAcc(s, sep, <<>>, <<>>)

\* str.split() without argument: runs of whitespace separate, no empty parts.
RECURSIVE SplitWsAcc(_, _, _)
SplitWsAcc(s, cur, acc) ==
    IF s = <<>> THEN (IF cur = <<>> THEN acc ELSE Append(acc, cur))
    ELSE IF Head(s) \in Whitespace
         THEN SplitWsAcc(Tail(s), <<>>, IF cur = <<>> THEN acc ELSE Append(acc, cur))
         ELSE SplitWsAcc(Tail(s), Append(cur, Head(s)), acc)

SplitWs(s) == SplitWsAcc(s, <<>>, <<>>)

\* sep.join(parts)
RECURSIVE Join(_, _)
Join(parts, sep) ==
    IF parts = <<>> THEN <<>>
    ELSE IF Len(parts) = 1 THEN parts[1]
    ELSE parts[1] \o sep \o Join(Tail(parts), sep)

----------------------------------------------------------------------------
(* Dicts and JSON values *)

Has(d, k) == \E i \in 1..Len(d) : d[i][1] = k

Get(d, k) == d[CHOOSE i \in 1..Len(d) : d[i][1] = k][2]

\* d[k] = v: an existing key keeps its position, a new key goes last.
Put(d, k, v) ==
    IF Has(d, k)
    THEN [i \in 1..Len(d) |-> IF d[i][1] = k THEN <<k, v>> ELSE d[i]]
    ELSE Append(d, <<k, v>>)

Keys(d) == [i \in 1..Len(d) |-> d[i][1]]

StrV(s) == [t |-> "str", s |-> s, d |-> <<>>]

DictV(d) == [t |-> "dict", s |-> <<>>, d |-> d]

\* Whether v[k] evaluates, for a value v that is a dict or a string.
HasItem(v, k) == v.t = "dict" /\ Has(v.d, k)

\* v[k] where it evaluates: a string, or (when a servers mapping is taken for
\* a profile) a dict, for which the marker "<dict>" stands.
Item(v, k) == IF Get(v.d, k).t = "str" THEN Get(v.d, k).s ELSE <<"<dict>">>

\* The exception v[k] raises where it does not evaluate.
ItemError(v, k) ==
    IF v.t = "dict"
    THEN [type |-> "KeyError", msg |-> <<"'">> \o k \o <<"'">>]
    ELSE [type |-> "TypeError", msg |-> <<"string indices must be integers">>]

NoExc == [type |-> "", msg |-> <<>>]

Ret(v) == [raised |-> FALSE, exc |-> NoExc, val |-> v]

Raise(e) == [raised |-> TRUE, exc |-> e, val |-> <<>>]

HOSTNAME == Str("hostname")
USERNAME == Str("username")
PASSWORD == Str("password")
SERVERS == Str("servers")

----------------------------------------------------------------------------
(* IPMIService: configuration *)

ADMIN == Str("admin")

\* os.environ.get(name, default)
EnvGet(env, name, default) == IF env[name] = None THEN default ELSE env[name]

Profile(h, u, p) == <<<<HOSTNAME, StrV(h)>>, <<USERNAME, StrV(u)>>, <<PASSWORD, StrV(p)>>>>

\* Mutant of ParseHostEntry: a 2-part entry takes both credentials from the
\* environment only when both are set there.
ParseHostEntryCouplesCredentials(env, servers, host_config) ==
    LET parts == Split(Strip(host_config), ":")
        both == env["IPMI_USER"] /= None /\ env["IPMI_PASSWORD"] /= None
    IN
    IF Len(parts) >= 4
    THEN Put(servers, parts[1], DictV(Profile(parts[2], parts[3], parts[4])))
    ELSE IF Len(parts) = 2
    THEN Put(servers, parts[1],
             DictV(Profile(parts[2],
                           IF both THEN env["IPMI_USER"] ELSE ADMIN,
                           IF both THEN env["IPMI_PASSWORD"] ELSE ADMIN)))
    ELSE servers

\* One comma-separated entry of IPMI_HOSTS applied to the servers dict.
ParseHostEntry(env, servers, host_config) ==
    LET parts == Split(Strip(host_config), ":") IN
    IF Len(parts) >= 4
    THEN Put(servers, parts[1], DictV(Profile(parts[2], parts[3], parts[4])))
    ELSE IF Len(parts) = 2
    THEN Put(servers, parts[1],
             DictV(Profile(parts[2],
                           EnvGet(env, "IPMI_USER", ADMIN),
                           EnvGet(env, "IPMI_PASSWORD", ADMIN))))
    ELSE servers

RECURSIVE ParseHostEntries(_, _, _)
ParseHostEntries(env, servers, entries) ==
    IF entries = <<>> THEN servers
    ELSE ParseHostEntries(env, ParseHostEntry(env, servers, Head(entries)), Tail(entries))

_parse_multi_server_env(env, ipmi_hosts) ==
    ParseHostEntries(env, <<>>, Split(ipmi_hosts, ","))

RequiredFields == <<HOSTNAME, USERNAME, PASSWORD>>

\* [field for field in required_fields if not config.get(field)]
MissingEnvFields(config) ==
    SelectSeq(RequiredFields, LAMBDA f : ~Truthy(Get(config, f).s))

\* The first required field a single-server file lacks, in the order checked.
FirstMissingField(config) ==
    RequiredFields[CHOOSE i \in 1..3 :
        /\ ~Has(config, RequiredFields[i])
        /\ \A j \in 1..(i - 1) : Has(config, RequiredFields[j])]

LoadConfigFromEnv(env) ==
    IF Truthy(env["IPMI_HOSTS"])
    THEN Ret(_parse_multi_server_env(env, env["IPMI_HOSTS"]))
    ELSE LET config == Profile(env["IPMI_HOST"], env["IPMI_USER"], env["IPMI_PASSWORD"])
             missing_fields == MissingEnvFields(config)
         IN  IF missing_fields /= <<>>
             THEN Raise([type |-> "Exception",
                         msg |-> <<"Missing required environment variables: ">>
                                 \o Join(missing_fields, <<", ">>)])
             ELSE Ret(config)

LoadConfigFromFile(file) ==
    IF ~file.wellformed
    THEN Raise([type |-> "Exception", msg |-> <<"Invalid IPMI configuration format">>])
    ELSE IF Has(file.json, SERVERS)
    THEN Ret(Get(file.json, SERVERS).d)
    ELSE IF \E i \in 1..3 : ~Has(file.json, RequiredFields[i])
    THEN Raise([type |-> "ValueError",
                msg |-> <<"Missing required field: ">> \o FirstMissingField(file.json)])
    ELSE Ret(file.json)

\* Mutant of _load_config: a file that does not parse is skipped.
LoadConfigSkipsMalformedFile(file, env) ==
    IF file.exists /\ file.wellformed THEN LoadConfigFromFile(file) ELSE LoadConfigFromEnv(env)

_load_config(file, env) ==
    IF file.exists THEN LoadConfigFromFile(file) ELSE LoadConfigFromEnv(env)

\* 'hostname' in self.servers_config: the test the code uses for single-server mode.
IsSingleServerConfig(servers_config) == Has(servers_config, HOSTNAME)

Service(sid, sc, cfg) == [server_id |-> sid, servers_config |-> sc, config |-> cfg]

\* IPMIService.__init__ on an already loaded configuration.
BindServer(server_id, servers_config) ==
    IF Truthy(server_id)
    THEN IF ~Has(servers_config, server_id)
         THEN Raise([type |-> "ValueError",
                     msg |-> <<"Server '">> \o server_id \o <<"' not found in configuration">>])
         ELSE Ret(Service(server_id, servers_config, Get(servers_config, server_id)))
    ELSE IF IsSingleServerConfig(servers_config)
         THEN Ret(Service(server_id, servers_config, DictV(servers_config)))
         ELSE IF servers_config = <<>>
              THEN Raise([type |-> "StopIteration", msg |-> <<>>])
              ELSE LET first_server == Keys(servers_config)[1]
                   IN  Ret(Service(first_server, servers_config,
                                   Get(servers_config, first_server)))

\* IPMIService(server_id): loads the configuration, then binds.
IPMIService(file, env, server_id) ==
    LET loaded == _load_config(file, env) IN
    IF loaded.raised THEN loaded ELSE BindServer(server_id, loaded.val)

get_available_servers(service) ==
    IF IsSingleServerConfig(service.servers_config)
    THEN <<Str("default")>>
    ELSE Keys(service.servers_config)


----------------------------------------------------------------------------
(* IPMIService: running ipmitool *)

DefaultTimeout == 30

SensorTimeout == 45

\* What subprocess.run does: the tool exits, the timeout expires, or the
\* launch fails (OSError and the like).
ProcExit(rc, stdout, stderr) ==
    [kind |-> "exit", rc |-> rc, stdout |-> stdout, stderr |-> stderr, msg |-> <<>>]

ProcTimeout == [kind |-> "timeout", rc |-> 0, stdout |-> <<>>, stderr |-> <<>>, msg |-> <<>>]

ProcError(msg) == [kind |-> "error", rc |-> 0, stdout |-> <<>>, stderr |-> <<>>, msg |-> msg]

\* The outcome of the k-th subprocess of a request.
Oracle(oracle, k) == oracle[((k - 1) % Len(oracle)) + 1]

CommandResult(service, success, output, error) ==
    [success |-> success, output |-> output, error |-> error,
     server_id |-> service.server_id, hostname |-> Item(service.config, HOSTNAME)]

\* Mutant of ToolArgv: the password of the profile is used wherever the
\* vector is built, the logged one included.
ToolArgvShowsPassword(service, password, command) ==
    <<Str("ipmitool"), Str("-I"), Str("lanplus"),
      Str("-H"), Item(service.config, HOSTNAME),
      Str("-U"), Item(service.config, USERNAME),
      Str("-P"), Item(service.config, PASSWORD)>> \o SplitWs(command)

\* Mutant of ToolArgv: the transport selector is left out.
ToolArgvWithoutInterface(service, password, command) ==
    <<Str("ipmitool"),
      Str("-H"), Item(service.config, HOSTNAME),
      Str("-U"), Item(service.config, USERNAME),
      Str("-P"), password>> \o SplitWs(command)

ToolArgv(service, password, command) ==
    <<Str("ipmitool"), Str("-I"), Str("lanplus"),
      Str("-H"), Item(service.config, HOSTNAME),
      Str("-U"), Item(service.config, USERNAME),
      Str("-P"), password>> \o SplitWs(command)

\* A step of a method: what it returned or raised, the subprocesses it
\* started and the lines it logged.
Step(out, calls, log) == [out |-> out, calls |-> calls, log |-> log]

\* The except-clauses of _execute_ipmi_command: each formats
\* self.config['hostname'] into its log line before returning, which raises
\* again when the profile has no hostname.
ExecuteFailed(service, prefix, suffix, error, calls, log) ==
    IF ~HasItem(service.config, HOSTNAME)
    THEN Step(Raise(ItemError(service.config, HOSTNAME)), calls, log)
    ELSE Step(Ret(CommandResult(service, FALSE, <<>>, error)), calls,
              Append(log, prefix \o Item(service.config, HOSTNAME) \o suffix))

\* Mutant of ExitResult: the output of a failed command is discarded.
ExitResultDiscardsOutput(service, proc) ==
    IF proc.rc = 0
    THEN CommandResult(service, TRUE, Strip(proc.stdout), None)
    ELSE CommandResult(service, FALSE, <<>>, Strip(proc.stderr))

\* The result for a subprocess that ran to its exit.
ExitResult(service, proc) ==
    IF proc.rc = 0
    THEN CommandResult(service, TRUE, Strip(proc.stdout), None)
    ELSE CommandResult(service, FALSE, Strip(proc.stdout), Strip(proc.stderr))

FirstMissingItem(config) ==
    RequiredFields[CHOOSE i \in 1..3 :
        /\ ~HasItem(config, RequiredFields[i])
        /\ \A j \in 1..(i - 1) : HasItem(config, RequiredFields[j])]

_execute_ipmi_command(service, command, timeout, proc) ==
    IF \E i \in 1..3 : ~HasItem(service.config, RequiredFields[i])
    THEN \* building cmd raises inside the try block
         LET e == ItemError(service.config, FirstMissingItem(service.config))
         IN  ExecuteFailed(service, <<"Error executing IPMI command on ">>,
                           <<": ">> \o e.msg, e.msg, <<>>, <<>>)
    ELSE LET cmd == ToolArgv(service, Item(service.config, PASSWORD), command)
             safe_cmd == ToolArgv(service, Str("[HIDDEN]"), command)
             calls == <<[argv |-> cmd, timeout |-> timeout]>>
             log == <<<<"Executing IPMI command on ">> \o Item(service.config, HOSTNAME)
                      \o <<": ">> \o Join(safe_cmd, <<" ">>)>>
         IN  CASE proc.kind = "exit" ->
                    Step(Ret(ExitResult(service, proc)), calls,
                         IF proc.rc = 0 THEN log
                         ELSE Append(log, <<"IPMI command failed on ">>
                                          \o Item(service.config, HOSTNAME)
                                          \o <<": ">> \o proc.stderr))
               [] proc.kind = "timeout" ->
                    ExecuteFailed(service, <<"IPMI command timed out on ">>, <<>>,
                                  <<"Command timed out">>, calls, log)
               [] OTHER ->
                    ExecuteFailed(service, <<"Error executing IPMI command on ">>,
                                  <<": ">> \o proc.msg, proc.msg, calls, log)


----------------------------------------------------------------------------
(* Output parsers *)

\* str.lower(), symbol by symbol: the symbols that hold upper-case letters.
LowerSym(c) ==
    CASE c = "PXE" -> "pxe"
      [] c = "Disk" -> "disk"
      [] c = "Chassis" -> "chassis"
      [] c = "Power" -> "power"
      [] c = "ON" -> "on"
      [] c = "Boot" -> "boot"
      [] c = "Flags" -> "flags"
      [] c = "CHASSIS" -> "chassis"
      [] c = "POWER" -> "power"
      [] c = "IS" -> "is"
      [] c = "OFF" -> "off"
      [] c = "Safe" -> "safe"
      [] c = "USB" -> "usb"
      [] OTHER -> c

Lower(s) == [i \in 1..Len(s) |-> LowerSym(s[i])]

\* needle in s
Contains(s, needle) ==
    \E i \in 1..(Len(s) - Len(needle) + 1) : SubSeq(s, i, i + Len(needle) - 1) = needle

PowerIsOn == <<"power", " ", "is", " ", "on">>

PowerIsOff == <<"power", " ", "is", " ", "off">>

\* Mutant of PowerState: the output is searched as it is, not lower-cased.
PowerStateCaseSensitive(output) ==
    IF Contains(output, PowerIsOn) THEN Str("on")
    ELSE IF Contains(output, PowerIsOff) THEN Str("off")
    ELSE Str("unknown")

PowerState(output) ==
    LET lowered == Lower(output) IN
    IF Contains(lowered, PowerIsOn) THEN Str("on")
    ELSE IF Contains(lowered, PowerIsOff) THEN Str("off")
    ELSE Str("unknown")

StripAll(parts) == [i \in 1..Len(parts) |-> Strip(parts[i])]

\* parts[i] if len(parts) > i else '' (i counted from 0 as in the code)
PartOr(parts, i) == IF Len(parts) > i THEN parts[i + 1] ELSE <<>>

\* Mutant of SensorOfLine: a line of two fields gives a reading too.
SensorOfLineAcceptsTwoFields(line) ==
    LET parts == StripAll(Split(line, "|")) IN
    IF "|" \in {line[i] : i \in 1..Len(line)} /\ Len(parts) >= 2
    THEN <<[name |-> parts[1], value |-> parts[2],
            unit |-> PartOr(parts, 2), status |-> PartOr(parts, 3),
            lower_nr |-> PartOr(parts, 4), lower_cr |-> PartOr(parts, 5),
            lower_nc |-> PartOr(parts, 6), upper_nc |-> PartOr(parts, 7),
            upper_cr |-> PartOr(parts, 8), upper_nr |-> PartOr(parts, 9)]>>
    ELSE <<>>

SensorOfLine(line) ==
    LET parts == StripAll(Split(line, "|")) IN
    IF "|" \in {line[i] : i \in 1..Len(line)} /\ Len(parts) >= 3
    THEN <<[name |-> parts[1], value |-> parts[2],
            unit |-> PartOr(parts, 2), status |-> PartOr(parts, 3),
            lower_nr |-> PartOr(parts, 4), lower_cr |-> PartOr(parts, 5),
            lower_nc |-> PartOr(parts, 6), upper_nc |-> PartOr(parts, 7),
            upper_cr |-> PartOr(parts, 8), upper_nr |-> PartOr(parts, 9)]>>
    ELSE <<>>

RECURSIVE FlatMap(_, _)
FlatMap(Op(_), lines) ==
    IF lines = <<>> THEN <<>> ELSE Op(Head(lines)) \o FlatMap(Op, Tail(lines))

_parse_sensor_output(output) == FlatMap(SensorOfLine, Split(output, "\n"))

\* seq[:limit] for a Python int limit (a negative limit counts from the end).
SliceTo(seq, limit) ==
    IF limit >= 0
    THEN SubSeq(seq, 1, IF limit < Len(seq) THEN limit ELSE Len(seq))
    ELSE SubSeq(seq, 1, Len(seq) + limit)

EventOfLine(line) ==
    LET parts == StripAll(Split(line, "|")) IN
    IF Strip(line) /= <<>> /\ Len(parts) >= 4
    THEN <<[id |-> parts[1],
            timestamp |-> parts[2] \o <<" ">> \o parts[3],
            sensor |-> PartOr(parts, 3),
            event |-> PartOr(parts, 4),
            value |-> PartOr(parts, 5)]>>
    ELSE <<>>

_parse_sel_output(output, limit) ==
    FlatMap(EventOfLine, SliceTo(Split(output, "\n"), limit))

\* str.replace(' ', '_')
ReplaceSpaces(s) == [i \in 1..Len(s) |-> IF s[i] = " " THEN "_" ELSE s[i]]

\* line.split(':', 1) on a line that contains a colon
SplitOnce(line) ==
    LET i == CHOOSE j \in 1..Len(line) :
                 line[j] = ":" /\ \A m \in 1..(j - 1) : line[m] /= ":"
    IN  <<SubSeq(line, 1, i - 1), SubSeq(line, i + 1, Len(line))>>

RECURSIVE BootInfo(_, _)
BootInfo(boot_info, lines) ==
    IF lines = <<>> THEN boot_info
    ELSE LET line == Head(lines) IN
         IF ":" \in {line[i] : i \in 1..Len(line)}
         THEN LET kv == SplitOnce(line) IN
              BootInfo(Put(boot_info, ReplaceSpaces(Lower(Strip(kv[1]))), Strip(kv[2])),
                       Tail(lines))
         ELSE BootInfo(boot_info, Tail(lines))

_parse_boot_device_output(output) == BootInfo(<<>>, Split(output, "\n"))


----------------------------------------------------------------------------
(* IPMIService: the operations *)

\* Values a caller can pass for a flag: JSON booleans, strings, numbers, null.
JBool(b) == [t |-> "bool", b |-> b, s |-> <<>>, n |-> 0]

JStr(str) == [t |-> "str", b |-> FALSE, s |-> str, n |-> 0]

JNum(n) == [t |-> "num", b |-> FALSE, s |-> <<>>, n |-> n]

JNull == [t |-> "null", b |-> FALSE, s |-> <<>>, n |-> 0]

\* Python truthiness, as `if force:` and `if persistent` test it.
PyTruth(v) ==
    CASE v.t = "bool" -> v.b
      [] v.t = "str" -> v.s /= <<>>
      [] v.t = "num" -> v.n /= 0
      [] OTHER -> FALSE

Cmd(words) == Join(words, <<" ">>)

power_on(service, oracle, k) ==
    _execute_ipmi_command(service, Cmd(<<Str("chassis"), Str("power"), Str("on")>>),
                          DefaultTimeout, Oracle(oracle, k))

\* Mutant of power_off: the soft command whatever force is.
PowerOffAlwaysSoft(service, force, oracle, k) ==
    _execute_ipmi_command(service, Cmd(<<Str("chassis"), Str("power"), Str("soft")>>),
                          DefaultTimeout, Oracle(oracle, k))

power_off(service, force, oracle, k) ==
    IF PyTruth(force)
    THEN _execute_ipmi_command(service, Cmd(<<Str("chassis"), Str("power"), Str("off")>>),
                               DefaultTimeout, Oracle(oracle, k))
    ELSE _execute_ipmi_command(service, Cmd(<<Str("chassis"), Str("power"), Str("soft")>>),
                               DefaultTimeout, Oracle(oracle, k))

power_reset(service, oracle, k) ==
    _execute_ipmi_command(service, Cmd(<<Str("chassis"), Str("power"), Str("reset")>>),
                          DefaultTimeout, Oracle(oracle, k))

\* A method that runs one command and, on success, adds fields to its result.
WithParsed(step, Extra(_)) ==
    IF ~step.out.raised /\ step.out.val.success
    THEN Step(Ret(step.out.val @@ Extra(step.out.val.output)), step.calls, step.log)
    ELSE step

PowerStateField(output) == [power_state |-> PowerState(output)]

get_power_status(service, oracle, k) ==
    WithParsed(_execute_ipmi_command(service,
                   Cmd(<<Str("chassis"), Str("power"), Str("status")>>),
                   DefaultTimeout, Oracle(oracle, k)),
               PowerStateField)

SystemInfoCommands ==
    <<<<Str("fru"), Str("fru")>>,
      <<Str("bmc_info"), Cmd(<<Str("bmc"), Str("info")>>)>>,
      <<Str("chassis_status"), Cmd(<<Str("chassis"), Str("status")>>)>>,
      <<Str("system_info"), Cmd(<<Str("fru"), Str("print")>>)>>>>

\* The loop of get_system_info: a raise of any command leaves the method.
RECURSIVE RunCommands(_, _, _, _, _, _, _)
RunCommands(service, commands, oracle, k, results, calls, log) ==
    IF commands = <<>> THEN Step(Ret(results), calls, log)
    ELSE LET st == _execute_ipmi_command(service, Head(commands)[2], DefaultTimeout,
                                         Oracle(oracle, k + Len(calls)))
         IN  IF st.out.raised
             THEN Step(st.out, calls \o st.calls, log \o st.log)
             ELSE RunCommands(service, Tail(commands), oracle, k,
                              Put(results, Head(commands)[1], st.out.val),
                              calls \o st.calls, log \o st.log)

\* Mutant of get_system_info: one successful command makes the whole succeed.
GetSystemInfoAnySuccess(service, oracle, k) ==
    LET st == RunCommands(service, SystemInfoCommands, oracle, k, <<>>, <<>>, <<>>) IN
    IF st.out.raised THEN st
    ELSE Step(Ret([success |-> \E i \in 1..Len(st.out.val) : st.out.val[i][2].success,
                   system_info |-> st.out.val,
                   server_id |-> service.server_id,
                   hostname |-> Item(service.config, HOSTNAME)]),
              st.calls, st.log)

get_system_info(service, oracle, k) ==
    LET st == RunCommands(service, SystemInfoCommands, oracle, k, <<>>, <<>>, <<>>) IN
    IF st.out.raised THEN st
    ELSE Step(Ret([success |-> \A i \in 1..Len(st.out.val) : st.out.val[i][2].success,
                   system_info |-> st.out.val,
                   server_id |-> service.server_id,
                   hostname |-> Item(service.config, HOSTNAME)]),
              st.calls, st.log)

SensorFields(output) ==
    LET sensors == _parse_sensor_output(output) IN
    [sensors |-> sensors, sensor_count |-> Len(sensors)]

get_sensor_data(service, oracle, k) ==
    WithParsed(_execute_ipmi_command(service, Str("sensor"), SensorTimeout,
                                     Oracle(oracle, k)),
               SensorFields)

get_system_event_log(service, limit, oracle, k) ==
    LET EventFields(output) ==
            LET events == _parse_sel_output(output, limit) IN
            [events |-> events, event_count |-> Len(events)]
    IN  WithParsed(_execute_ipmi_command(service, Cmd(<<Str("sel"), Str("list")>>),
                                         DefaultTimeout, Oracle(oracle, k)),
                   EventFields)

clear_system_event_log(service, oracle, k) ==
    _execute_ipmi_command(service, Cmd(<<Str("sel"), Str("clear")>>),
                          DefaultTimeout, Oracle(oracle, k))

get_sel_info(service, oracle, k) ==
    _execute_ipmi_command(service, Cmd(<<Str("sel"), Str("info")>>),
                          DefaultTimeout, Oracle(oracle, k))

\* Mutant of valid_devices: usb is accepted too.
ValidDevicesWithUsb ==
    <<Str("pxe"), Str("disk"), Str("cdrom"), Str("bios"), Str("floppy"), Str("safe"),
      Str("usb")>>

valid_devices ==
    <<Str("pxe"), Str("disk"), Str("cdrom"), Str("bios"), Str("floppy"), Str("safe")>>

set_boot_device(service, device, persistent, oracle, k) ==
    IF ~\E i \in 1..Len(valid_devices) : valid_devices[i] = Lower(device)
    THEN IF ~HasItem(service.config, HOSTNAME)
         THEN Step(Raise(ItemError(service.config, HOSTNAME)), <<>>, <<>>)
         ELSE Step(Ret([success |-> FALSE,
                        error |-> <<"Invalid boot device '">> \o device
                                  \o <<"'. Valid options: ">>
                                  \o Join(valid_devices, <<", ">>),
                        server_id |-> service.server_id,
                        hostname |-> Item(service.config, HOSTNAME)]),
                   <<>>, <<>>)
    ELSE LET options == IF PyTruth(persistent)
                        THEN Str("options=persistent")
                        ELSE Str("options=efiboot")
         IN  _execute_ipmi_command(service,
                 Cmd(<<Str("chassis"), Str("bootdev"), device, options>>),
                 DefaultTimeout, Oracle(oracle, k))

BootDeviceField(output) == [boot_device |-> _parse_boot_device_output(output)]

get_boot_device(service, oracle, k) ==
    WithParsed(_execute_ipmi_command(service,
                   Cmd(<<Str("chassis"), Str("bootparam"), Str("get"), Str("5")>>),
                   DefaultTimeout, Oracle(oracle, k)),
               BootDeviceField)

\* Mutant of check_health: the power status is never probed.
CheckHealthSkipsPowerProbe(service, oracle, k) ==
    LET st == _execute_ipmi_command(service, Cmd(<<Str("chassis"), Str("status")>>),
                                    DefaultTimeout, Oracle(oracle, k))
    IN  IF st.out.raised THEN st
        ELSE IF st.out.val.success
        THEN Step(Ret([success |-> TRUE,
                       details |-> [ipmi_connection |-> Str("healthy"),
                                    chassis_status |-> st.out.val.output,
                                    server_id |-> service.server_id,
                                    hostname |-> Item(service.config, HOSTNAME)]]),
                  st.calls, st.log)
        ELSE Step(Ret([success |-> FALSE, error |-> st.out.val.error,
                       server_id |-> service.server_id,
                       hostname |-> Item(service.config, HOSTNAME)]),
                  st.calls, st.log)

check_health(service, oracle, k) ==
    LET st == _execute_ipmi_command(service, Cmd(<<Str("chassis"), Str("status")>>),
                                    DefaultTimeout, Oracle(oracle, k))
    IN  IF st.out.raised
        THEN \* the except-clause formats self.config['hostname'] again
             IF ~HasItem(service.config, HOSTNAME)
             THEN Step(Raise(ItemError(service.config, HOSTNAME)), st.calls, st.log)
             ELSE Step(Ret([success |-> FALSE, error |-> st.out.exc.msg,
                            server_id |-> service.server_id,
                            hostname |-> Item(service.config, HOSTNAME)]),
                       st.calls, st.log)
        ELSE IF st.out.val.success
        THEN LET details == [ipmi_connection |-> Str("healthy"),
                             chassis_status |-> st.out.val.output,
                             server_id |-> service.server_id,
                             hostname |-> Item(service.config, HOSTNAME)]
                 pw == get_power_status(service, oracle, k + Len(st.calls))
             IN  IF pw.out.raised
                 THEN Step(Ret([success |-> FALSE, error |-> pw.out.exc.msg,
                                server_id |-> service.server_id,
                                hostname |-> Item(service.config, HOSTNAME)]),
                           st.calls \o pw.calls, st.log \o pw.log)
                 ELSE Step(Ret([success |-> TRUE,
                                details |-> IF pw.out.val.success
                                            THEN details @@
                                                 [power_status |-> pw.out.val.power_state]
                                            ELSE details]),
                           st.calls \o pw.calls, st.log \o pw.log)
        ELSE Step(Ret([success |-> FALSE, error |-> st.out.val.error,
                       server_id |-> service.server_id,
                       hostname |-> Item(service.config, HOSTNAME)]),
                  st.calls, st.log)


----------------------------------------------------------------------------
(* Calling a method by name *)

Methods ==
    {"power_on", "power_off", "power_reset", "get_power_status", "get_system_info",
     "get_sensor_data", "get_system_event_log", "clear_system_event_log",
     "get_sel_info", "set_boot_device", "get_boot_device", "check_health",
     "start_server", "stop_server", "check_status", "get_available_servers"}

\* Instance attributes that are not methods.
DataAttributes == {"config_path", "server_id", "servers_config", "config"}

\* hasattr(service, operation)
HasAttr(operation) == operation \in Methods \cup DataAttributes

MethodParams(operation) ==
    CASE operation = "power_off" -> {"force"}
      [] operation = "get_system_event_log" -> {"limit"}
      [] operation = "set_boot_device" -> {"device", "persistent"}
      [] operation \in {"start_server", "stop_server", "check_status"} -> {"ip_address"}
      [] OTHER -> {}

RequiredParams(operation) == IF operation = "set_boot_device" THEN {"device"} ELSE {}

DefaultLimit == 50

Kw(kwargs, name, default) == IF name \in DOMAIN kwargs THEN kwargs[name] ELSE default

\* getattr(service, operation) called with kwargs, for an attribute the service has.
Invoke(service, operation, kwargs, oracle, k) ==
    IF operation \in DataAttributes
    THEN Step(Raise([type |-> "TypeError", msg |-> <<"object is not callable">>]),
              <<>>, <<>>)
    ELSE IF ~(DOMAIN kwargs \subseteq MethodParams(operation))
    THEN Step(Raise([type |-> "TypeError",
                     msg |-> <<operation, "() got an unexpected keyword argument">>]),
              <<>>, <<>>)
    ELSE IF ~(RequiredParams(operation) \subseteq DOMAIN kwargs)
    THEN Step(Raise([type |-> "TypeError",
                     msg |-> <<operation, "() missing 1 required positional argument">>]),
              <<>>, <<>>)
    ELSE CASE operation \in {"power_on", "start_server"} -> power_on(service, oracle, k)
           [] operation = "power_off" ->
                power_off(service, Kw(kwargs, "force", JBool(FALSE)), oracle, k)
           [] operation = "stop_server" -> power_off(service, JBool(FALSE), oracle, k)
           [] operation = "power_reset" -> power_reset(service, oracle, k)
           [] operation \in {"get_power_status", "check_status"} ->
                get_power_status(service, oracle, k)
           [] operation = "get_system_info" -> get_system_info(service, oracle, k)
           [] operation = "get_sensor_data" -> get_sensor_data(service, oracle, k)
           [] operation = "get_system_event_log" ->
                get_system_event_log(service, Kw(kwargs, "limit", DefaultLimit), oracle, k)
           [] operation = "clear_system_event_log" ->
                clear_system_event_log(service, oracle, k)
           [] operation = "get_sel_info" -> get_sel_info(service, oracle, k)
           [] operation = "set_boot_device" ->
                set_boot_device(service, kwargs["device"],
                                Kw(kwargs, "persistent", JBool(FALSE)), oracle, k)
           [] operation = "get_boot_device" -> get_boot_device(service, oracle, k)
           [] operation = "check_health" -> check_health(service, oracle, k)
           [] OTHER -> \* get_available_servers: a list, not a result dict
                Step(Ret(get_available_servers(service)), <<>>, <<>>)

\* Whether a returned value is a list, on which r.get raises AttributeError.
ReturnsList(operation) == operation = "get_available_servers"


----------------------------------------------------------------------------
(* MultiServerIPMIService *)

\* MultiServerIPMIService(): the default service and the ids it lists.
MultiServerIPMIService(file, env) ==
    LET base == IPMIService(file, env, None) IN
    IF base.raised THEN base
    ELSE Ret([base_service |-> base.val, servers |-> get_available_servers(base.val)])

get_service_for_server(file, env, server_id) == IPMIService(file, env, server_id)

UnsupportedEntry(operation, server_id) ==
    [success |-> FALSE,
     error |-> <<"Operation '", operation, "' not supported">>,
     server_id |-> server_id]

ExceptionEntry(e, server_id) ==
    [success |-> FALSE, error |-> e.msg, server_id |-> server_id]

\* What one pass of the loop leaves behind: the entry stored in results,
\* whether the method returned a list, the subprocesses started, the lines
\* logged and the service that was constructed.
Dispatched(entry, islist, calls, log, service) ==
    [entry |-> entry, islist |-> islist, calls |-> calls, log |-> log,
     service |-> service]

\* results[server_id] = method(**kwargs), or the entry of the exception it raised.
DispatchInvoked(service, st, operation, server_id) ==
    IF st.out.raised
    THEN Dispatched(ExceptionEntry(st.out.exc, server_id), FALSE, st.calls, st.log, service)
    ELSE Dispatched(st.out.val, ReturnsList(operation), st.calls, st.log, service)

\* The try block once get_service_for_server has returned or raised.
DispatchConstructed(service, server_id, operation, kwargs, oracle, k) ==
    IF service.raised
    THEN Dispatched(ExceptionEntry(service.exc, server_id), FALSE, <<>>, <<>>, service)
    ELSE IF HasAttr(operation)
    THEN DispatchInvoked(service, Invoke(service.val, operation, kwargs, oracle, k),
                         operation, server_id)
    ELSE Dispatched(UnsupportedEntry(operation, server_id), FALSE, <<>>, <<>>, service)

\* The body of the loop of execute_on_all_servers for one server id.
DispatchOne(file, env, server_id, operation, kwargs, oracle, k) ==
    DispatchConstructed(get_service_for_server(file, env, server_id),
                        server_id, operation, kwargs, oracle, k)

\* The state of the loop after one more server.
Accumulate(acc, server_id, one) ==
    [results |-> Put(acc.results, server_id, one.entry),
     lists |-> IF one.islist THEN acc.lists \cup {server_id} ELSE acc.lists,
     calls |-> acc.calls \o one.calls,
     log |-> acc.log \o one.log,
     dispatch |-> Append(acc.dispatch,
                         [server_id |-> server_id, service |-> one.service,
                          calls |-> one.calls])]

\* for server_id in self.servers: ...
RECURSIVE DispatchLoop(_, _, _, _, _, _, _)
DispatchLoop(file, env, servers, operation, kwargs, oracle, acc) ==
    IF servers = <<>> THEN acc
    ELSE DispatchLoop(file, env, Tail(servers), operation, kwargs, oracle,
             Accumulate(acc, Head(servers),
                        DispatchOne(file, env, Head(servers), operation, kwargs,
                                    oracle, 1 + Len(acc.calls))))

\* Mutant of CountSuccessful: every entry is counted.
CountEveryEntry(results) == Len(results)

\* sum(1 for r in results.values() if r.get('success', False))
RECURSIVE CountSuccessful(_)
CountSuccessful(results) ==
    IF results = <<>> THEN 0
    ELSE (IF results[1][2].success THEN 1 ELSE 0) + CountSuccessful(Tail(results))

\* The aggregate returned once the loop is done; counting the successes
\* raises when a method returned a list.
Aggregate(mss, operation, done) ==
    [out |-> IF done.lists /= {}
             THEN Raise([type |-> "AttributeError",
                         msg |-> <<"'list' object has no attribute 'get'">>])
             ELSE Ret([operation |-> operation,
                       total_servers |-> Len(mss.servers),
                       successful |-> CountSuccessful(done.results),
                       results |-> done.results]),
     calls |-> done.calls, log |-> done.log, dispatch |-> done.dispatch]

execute_on_all_servers(mss, file, env, operation, kwargs, oracle) ==
    Aggregate(mss, operation,
              DispatchLoop(file, env, mss.servers, operation, kwargs, oracle,
                           [results |-> <<>>, lists |-> {}, calls |-> <<>>,
                            log |-> <<>>, dispatch |-> <<>>]))

----------------------------------------------------------------------------
(* The controller's module-level services *)

NoService == [none |-> TRUE]

\* get_server_service(server_id)
get_server_service(default_service, file, env, server_id) ==
    IF Truthy(server_id) THEN IPMIService(file, env, server_id) ELSE Ret(default_service)


----------------------------------------------------------------------------
(* Bounded inputs *)

MaxServers == 2

OracleLen == 2

Range(seq) == {seq[i] : i \in 1..Len(seq)}

\* All sequences of at most n elements of S.
RECURSIVE SeqUpTo(_, _)
SeqUpTo(S, n) ==
    IF n = 0 THEN {<<>>}
    ELSE LET shorter == SeqUpTo(S, n - 1)
         IN  shorter \cup {Append(q, x) : q \in {r \in shorter : Len(r) = n - 1}, x \in S}

AbsentFile == [exists |-> FALSE, wellformed |-> TRUE, json |-> <<>>]

MalformedFile == [exists |-> TRUE, wellformed |-> FALSE, json |-> <<>>]

JsonFile(json) == [exists |-> TRUE, wellformed |-> TRUE, json |-> json]

UnsetEnv ==
    [IPMI_HOSTS |-> None, IPMI_HOST |-> None, IPMI_USER |-> None, IPMI_PASSWORD |-> None]

SingleEnv ==
    [IPMI_HOSTS |-> None, IPMI_HOST |-> Str("h0"),
     IPMI_USER |-> Str("u0"), IPMI_PASSWORD |-> Str("p0")]

\* Entries of IPMI_HOSTS: 4-part, 2-part, with an empty id, with the id
\* "hostname", and a 1-part entry that the parser skips.
HostEntries ==
    {Join(<<Str("a"), Str("h1"), Str("u1"), Str("p1")>>, <<":">>),
     Join(<<Str("b"), Str("h2")>>, <<":">>),
     Join(<<<<>>, Str("h3"), Str("u1"), Str("p2")>>, <<":">>),
     Join(<<Str("hostname"), Str("h4"), Str("u1"), Str("p1")>>, <<":">>),
     Str("c")}

HostsValues == {Join(entries, <<",">>) : entries \in SeqUpTo(HostEntries, MaxServers)}

\* Profiles of a servers mapping in the file; the file's entries are not validated.
FileProfiles ==
    {DictV(Profile(Str("h1"), Str("u1"), Str("p1"))),
     DictV(<<<<USERNAME, StrV(Str("u1"))>>, <<PASSWORD, StrV(Str("p1"))>>>>),
     DictV(<<<<HOSTNAME, StrV(Str("h2"))>>, <<PASSWORD, StrV(Str("p2"))>>>>)}

MainFileProfiles ==
    {DictV(Profile(Str("h1"), Str("u1"), Str("p1"))),
     DictV(<<<<USERNAME, StrV(Str("u1"))>>, <<PASSWORD, StrV(Str("p1"))>>>>)}

FileIds == {Str("a"), Str("b")}

\* Ordered mappings of at most MaxServers distinct ids to profiles.
ServerDicts(ids, profiles) ==
    {d \in SeqUpTo(ids \X profiles, MaxServers) :
        \A i, j \in 1..Len(d) : d[i][1] = d[j][1] => i = j}

SingleFileJsons ==
    {Profile(Str("h0"), Str("u0"), Str("p0")),
     <<<<HOSTNAME, StrV(Str("h0"))>>, <<PASSWORD, StrV(Str("p0"))>>>>}

\* The configurations of the main specification: without a file the
\* environment decides, with a file the environment is not read.
MainConfigs ==
    {<<AbsentFile, [UnsetEnv EXCEPT !["IPMI_HOSTS"] = h]>> : h \in {None} \cup HostsValues}
    \cup {<<AbsentFile, SingleEnv>>}
    \cup {<<JsonFile(<<<<SERVERS, DictV(d)>>>>), UnsetEnv>> :
              d \in ServerDicts(FileIds, MainFileProfiles)}
    \cup {<<JsonFile(j), UnsetEnv>> : j \in SingleFileJsons}
    \cup {<<MalformedFile, SingleEnv>>}

\* The configurations of the resolution specification: every file with every
\* environment.
ResolveFiles ==
    {AbsentFile, MalformedFile}
    \cup {JsonFile(SelectSeq(Profile(Str("h0"), Str("u0"), Str("p0")),
                            LAMBDA kv : kv[1] \in fields)) : fields \in SUBSET Range(RequiredFields)}
    \cup {JsonFile(<<<<SERVERS, DictV(d)>>>>) :
              d \in ServerDicts({Str("a"), Str("hostname"), <<>>}, FileProfiles)}

ResolveEnvs ==
    [IPMI_HOSTS : {None} \cup HostsValues, IPMI_HOST : {None, Str("h0")},
     IPMI_USER : {None, Str("u0")}, IPMI_PASSWORD : {None, Str("p0")}]

\* The configurations of the reload specification.
ReloadConfigs ==
    {<<AbsentFile, SingleEnv>>,
     <<AbsentFile, [UnsetEnv EXCEPT !["IPMI_HOSTS"] =
                       Join(<<Str("a"), Str("h1"), Str("u1"), Str("p1")>>, <<":">>)]>>,
     <<JsonFile(<<<<SERVERS, DictV(<<<<Str("a"),
                    DictV(Profile(Str("h2"), Str("u1"), Str("p2")))>>>>)>>>>), UnsetEnv>>,
     <<MalformedFile, UnsetEnv>>}

ProcOutcomes ==
    {ProcExit(0, <<" ", "Chassis", " ", "Power", " ", "is", " ", "on", "\n">>, <<>>),
     ProcExit(0, <<"CPU Temp", " ", "|", " ", "40", " ", "|", " ", "degrees C", "\n", "junk">>,
              <<>>),
     ProcExit(1, <<"partial", "\n">>, <<" ", "Unable to establish IPMI session", "\n">>),
     ProcTimeout,
     ProcError(<<"[Errno 2] No such file or directory: 'ipmitool'">>)}

Oracles == [1..OracleLen -> ProcOutcomes]

NoKwargs == <<>>

\* Requests: every attribute name without arguments, an unknown name, and
\* the methods that take arguments with some.
Requests ==
    {<<m, NoKwargs>> : m \in Methods \cup {"config", "reboot"}}
    \cup {<<"power_off", [force |-> f]>> : f \in {JBool(TRUE), JBool(FALSE), JStr(Str("false"))}}
    \cup {<<"power_on", [force |-> JBool(TRUE)]>>}
    \cup {<<"set_boot_device", [device |-> d]>> : d \in {Str("pxe"), Str("PXE"), Str("usb")}}
    \cup {<<"set_boot_device", [device |-> Str("disk"), persistent |-> JBool(TRUE)]>>}
    \cup {<<"get_system_event_log", [limit |-> n]>> : n \in {0, 1}}

ServerIdParams == {None, <<>>, Str("a"), Str("hostname"), Str("default"), Str("zz")}

----------------------------------------------------------------------------
(* The state machine *)

NoRequest ==
    [kind |-> "none", server_id |-> None, operation |-> "", kwargs |-> NoKwargs,
     oracle |-> <<>>, loaded |-> Ret(<<>>), service |-> Ret(NoService),
     out |-> Ret(NoService), calls |-> <<>>, log |-> <<>>, dispatch |-> <<>>]

Init ==
    /\ \E c \in MainConfigs : fs = c[1] /\ environ = c[2]
    /\ phase = "import"
    /\ multi_server_service = NoService
    /\ ipmi_service = NoService
    /\ last = NoRequest

\* Importing the controller module: both services, or neither.
ImportController ==
    /\ phase = "import"
    /\ LET multi == MultiServerIPMIService(fs, environ)
           single == IPMIService(fs, environ, None)
       IN  IF multi.raised \/ single.raised
           THEN multi_server_service' = NoService /\ ipmi_service' = NoService
           ELSE multi_server_service' = multi.val /\ ipmi_service' = single.val
    /\ phase' = "idle"
    /\ UNCHANGED <<fs, environ, last>>

\* The handler's call of the method on the service it was given.
CallOperation(service, operation, kwargs, oracle) ==
    IF service.raised THEN Step(service, <<>>, <<>>)
    ELSE IF service.val = NoService \/ ~HasAttr(operation)
    THEN Step(Raise([type |-> "AttributeError",
                     msg |-> <<"object has no attribute '", operation, "'">>]),
              <<>>, <<>>)
    ELSE Invoke(service.val, operation, kwargs, oracle, 1)

\* What a request did: the service it used and the step it made.
Handled(kind, server_id, operation, kwargs, oracle, service, st, dispatch) ==
    [kind |-> kind, server_id |-> server_id, operation |-> operation,
     kwargs |-> kwargs, oracle |-> oracle, loaded |-> Ret(<<>>),
     service |-> service, out |-> st.out, calls |-> st.calls, log |-> st.log,
     dispatch |-> dispatch]

HandleOperation(server_id, operation, kwargs, oracle, service) ==
    Handled("operation", server_id, operation, kwargs, oracle, service,
            CallOperation(service, operation, kwargs, oracle), <<>>)

HandleBroadcast(operation, kwargs, oracle, r) ==
    Handled("broadcast", None, operation, kwargs, oracle, Ret(NoService), r, r.dispatch)

\* A request for one server: get_server_service(server_id), then the method.
Operation ==
    /\ phase = "idle"
    /\ \E server_id \in ServerIdParams, req \in Requests, oracle \in Oracles :
          last' = HandleOperation(server_id, req[1], req[2], oracle,
                      get_server_service(ipmi_service, fs, environ, server_id))
    /\ phase' = "responded"
    /\ UNCHANGED <<fs, environ, multi_server_service, ipmi_service>>

\* A request for all servers: multi_server_service.execute_on_all_servers.
Broadcast ==
    /\ phase = "idle"
    /\ multi_server_service /= NoService
    /\ \E req \in Requests, oracle \in Oracles :
          last' = HandleBroadcast(req[1], req[2], oracle,
                      execute_on_all_servers(multi_server_service, fs, environ,
                                             req[1], req[2], oracle))
    /\ phase' = "responded"
    /\ UNCHANGED <<fs, environ, multi_server_service, ipmi_service>>

\* The response has been sent: the next request can come.
Respond ==
    /\ phase = "responded"
    /\ phase' = "idle"
    /\ last' = NoRequest
    /\ UNCHANGED <<fs, environ, multi_server_service, ipmi_service>>

Next == ImportController \/ Operation \/ Broadcast \/ Respond

Spec == Init /\ [][Next]_vars

\* lookup(server_id): constructing IPMIService(server_id), as
\* get_server_service and get_service_for_server do.
Lookup ==
    /\ phase = "idle"
    /\ \E server_id \in ServerIdParams :
          last' = [NoRequest EXCEPT !.kind = "lookup", !.server_id = server_id,
                                    !.loaded = _load_config(fs, environ),
                                    !.service = IPMIService(fs, environ, server_id)]
    /\ phase' = "responded"
    /\ UNCHANGED <<fs, environ, multi_server_service, ipmi_service>>

InitResolve ==
    /\ fs \in ResolveFiles
    /\ environ \in ResolveEnvs
    /\ phase = "import"
    /\ multi_server_service = NoService
    /\ ipmi_service = NoService
    /\ last = NoRequest

NextResolve == ImportController \/ Lookup \/ Respond

SpecResolve == InitResolve /\ [][NextResolve]_vars

\* The configuration file or the environment changes while the process runs.
Reconfigure ==
    /\ phase = "idle"
    /\ \E c \in ReloadConfigs : fs' = c[1] /\ environ' = c[2]
    /\ UNCHANGED <<phase, multi_server_service, ipmi_service, last>>

InitReload ==
    /\ \E c \in ReloadConfigs : fs = c[1] /\ environ = c[2]
    /\ phase = "import"
    /\ multi_server_service = NoService
    /\ ipmi_service = NoService
    /\ last = NoRequest

NextReload == ImportController \/ Reconfigure \/ Operation \/ Broadcast \/ Respond

SpecReload == InitReload /\ [][NextReload]_vars

\* The configurations of the commands specification: each binds the default
\* service to a complete profile; the first two differ only in the password.
CommandConfigs ==
    {<<AbsentFile, SingleEnv>>,
     <<AbsentFile, [SingleEnv EXCEPT !["IPMI_PASSWORD"] = Str("p1")]>>,
     <<AbsentFile, [UnsetEnv EXCEPT !["IPMI_HOSTS"] =
                       Join(<<Str("a"), Str("h1"), Str("u1"), Str("p1")>>, <<":">>)]>>,
     <<JsonFile(Profile(Str("h2"), Str("u2"), <<"p 2">>)), UnsetEnv>>}

\* Argument strings given to the runner: one word, several words, runs of
\* whitespace between and around the words, a word that is the redaction
\* marker, and no word at all.
ArgumentStrings ==
    {<<"sensor">>,
     <<"chassis", " ", "power", " ", "status">>,
     <<" ", "sel", " ", " ", "list", "\t", "5", "\n">>,
     <<"user", " ", "set", " ", "password", " ", "[HIDDEN]">>,
     <<" ", " ">>,
     <<>>}

Timeouts == {DefaultTimeout, SensorTimeout}

\* What the power status command may print, when it exits with 0.
PowerOutputs ==
    {<<"Chassis", " ", "Power", " ", "is", " ", "off", "\n">>,
     <<"CHASSIS", " ", "POWER", " ", "IS", " ", "OFF">>,
     <<"Chassis", " ", "Power", " ", "is", " ", "on", "\n",
       "Last", " ", "power", " ", "is", " ", "off">>,
     <<"Power", " ", "is", " ", " ", "on">>,
     <<"power", " ", "is">>,
     <<>>}

CommandOutcomes == ProcOutcomes \cup {ProcExit(0, o, <<>>) : o \in PowerOutputs}

\* Device strings given to set_boot_device.
DeviceStrings ==
    {Str("pxe"), Str("PXE"), Str("Disk"), Str("cdrom"), Str("bios"), Str("floppy"),
     Str("Safe"), Str("usb"), Str("USB"), <<"pxe", " ">>, <<>>}

CommandRequests ==
    {<<"power_off", [force |-> JBool(f)]>> : f \in BOOLEAN}
    \cup {<<"power_off", NoKwargs>>, <<"get_power_status", NoKwargs>>}
    \cup {<<"set_boot_device", [device |-> d]>> : d \in DeviceStrings}
    \cup {<<"set_boot_device", [device |-> d, persistent |-> JBool(b)]>> :
              d \in DeviceStrings, b \in BOOLEAN}

\* The runner called on the default service with an argument string.
Run ==
    /\ phase = "idle"
    /\ ipmi_service /= NoService
    /\ \E command \in ArgumentStrings, timeout \in Timeouts, proc \in CommandOutcomes :
          last' = Handled("run", None, "_execute_ipmi_command",
                          [command |-> command, timeout |-> timeout], <<proc>>,
                          Ret(ipmi_service),
                          _execute_ipmi_command(ipmi_service, command, timeout, proc),
                          <<>>)
    /\ phase' = "responded"
    /\ UNCHANGED <<fs, environ, multi_server_service, ipmi_service>>

\* A method of the default service called with its arguments.
Command ==
    /\ phase = "idle"
    /\ ipmi_service /= NoService
    /\ \E req \in CommandRequests, proc \in CommandOutcomes :
          last' = HandleOperation(None, req[1], req[2], <<proc>>,
                      get_server_service(ipmi_service, fs, environ, None))
    /\ phase' = "responded"
    /\ UNCHANGED <<fs, environ, multi_server_service, ipmi_service>>

InitCommands ==
    /\ \E c \in CommandConfigs : fs = c[1] /\ environ = c[2]
    /\ phase = "import"
    /\ multi_server_service = NoService
    /\ ipmi_service = NoService
    /\ last = NoRequest

NextCommands == ImportController \/ Run \/ Command \/ Respond

SpecCommands == InitCommands /\ [][NextCommands]_vars

\* What each command of get_system_info may do: print something and exit
\* with 0, exit with 1, or run out of time.
InfoOutcomes ==
    {ProcExit(0, <<"Product", " ", "Name", " ", ":", " ", "R640", "\n">>, <<>>),
     ProcExit(1, <<>>, <<"Unable to establish IPMI session", "\n">>),
     ProcTimeout}

InfoOracles == [1..Len(SystemInfoCommands) -> InfoOutcomes]

HealthOracles == [1..OracleLen -> CommandOutcomes]

\* What the sensor command may print: lines of one, two, three, four and
\* eleven fields, fields that are empty, blank lines, nothing.
SensorOutputs ==
    {<<"Fan1", " ", "|", " ", "1200", " ", "|", " ", "RPM", " ", "|", " ", "ok", "\n",
       "\n",
       "x", " ", "|", " ", "y", "\n",
       "V", "|", "12", "|", "Volts">>,
     <<"a", "|", "b">>,
     <<"|", "|">>,
     <<"n", "|", "v", "|", "u", "|", "s", "|", "1", "|", "2", "|", "3", "|", "4", "|",
       "5", "|", "6", "|", "extra">>,
     <<"no sensors">>,
     <<>>}

SensorOutcomes == ProcOutcomes \cup {ProcExit(0, o, <<>>) : o \in SensorOutputs}

\* What the event log command may print: entries of five and six fields
\* with a blank line and a line of two fields between them, one entry of
\* four fields, one line of three fields, nothing.
SelOutputs ==
    {<<"1", " ", "|", " ", "01/01/2024", " ", "|", " ", "10:00:00", " ", "|", " ", "Fan",
       " ", "|", " ", "Lower Critical", "\n",
       "\n",
       "2", " ", "|", " ", "01/02/2024", " ", "|", " ", "11:00:00", " ", "|", " ", "Temp",
       " ", "|", " ", "Upper", "\n",
       "bad", " ", "|", " ", "x", "\n",
       "3", " ", "|", " ", "01/03/2024", " ", "|", " ", "12:00:00", " ", "|", " ", "PSU",
       " ", "|", " ", "Fail", " ", "|", " ", "Asserted">>,
     <<"1", "|", "d", "|", "t", "|", "s">>,
     <<"x", "|", "y", "|", "z">>,
     <<>>}

SelOutcomes == ProcOutcomes \cup {ProcExit(0, o, <<>>) : o \in SelOutputs}

MaxLimit == 3

\* The limit of the query string after its conversion with type=int: any
\* integer, negative ones included; DefaultLimit when the parameter is absent.
Limits == (-MaxLimit..MaxLimit) \cup {DefaultLimit}

\* get_system_info on the default service.
SystemInfo ==
    /\ phase = "idle"
    /\ ipmi_service /= NoService
    /\ \E oracle \in InfoOracles :
          last' = HandleOperation(None, "get_system_info", NoKwargs, oracle,
                      get_server_service(ipmi_service, fs, environ, None))
    /\ phase' = "responded"
    /\ UNCHANGED <<fs, environ, multi_server_service, ipmi_service>>

\* check_health on the default service.
Health ==
    /\ phase = "idle"
    /\ ipmi_service /= NoService
    /\ \E oracle \in HealthOracles :
          last' = HandleOperation(None, "check_health", NoKwargs, oracle,
                      get_server_service(ipmi_service, fs, environ, None))
    /\ phase' = "responded"
    /\ UNCHANGED <<fs, environ, multi_server_service, ipmi_service>>

\* get_sensor_data on the default service.
Sensors ==
    /\ phase = "idle"
    /\ ipmi_service /= NoService
    /\ \E proc \in SensorOutcomes :
          last' = HandleOperation(None, "get_sensor_data", NoKwargs, <<proc>>,
                      get_server_service(ipmi_service, fs, environ, None))
    /\ phase' = "responded"
    /\ UNCHANGED <<fs, environ, multi_server_service, ipmi_service>>

\* system_events: get_system_event_log(limit=limit) on the default service.
Events ==
    /\ phase = "idle"
    /\ ipmi_service /= NoService
    /\ \E limit \in Limits, proc \in SelOutcomes :
          last' = HandleOperation(None, "get_system_event_log", [limit |-> limit],
                      <<proc>>, get_server_service(ipmi_service, fs, environ, None))
    /\ phase' = "responded"
    /\ UNCHANGED <<fs, environ, multi_server_service, ipmi_service>>

NextReadings == ImportController \/ SystemInfo \/ Health \/ Sensors \/ Events \/ Respond

SpecReadings == InitCommands /\ [][NextReadings]_vars

----------------------------------------------------------------------------
(* The controller: the request and the handlers of the power endpoints *)

\* A request, as far as the handlers read it: the query parameters, whether
\* the content type says JSON, and the parsed body, which is a JSON object
\* with fields or another JSON value, here an array.
Request(args, is_json, json) == [args |-> args, is_json |-> is_json, json |-> json]

JsonObject(fields) == [kind |-> "object", fields |-> fields]

JsonArray == [kind |-> "array", fields |-> NoKwargs]

\* request.json.get(name, default)
JsonGet(json, name, default) ==
    IF json.kind /= "object"
    THEN Raise([type |-> "AttributeError",
                msg |-> <<"'list' object has no attribute 'get'">>])
    ELSE Ret(Kw(json.fields, name, default))

\* request.args.get('server_id') or request.json.get('server_id')
\*     if request.is_json else None
\* The condition binds last: without a JSON content type the query
\* parameter is not read.
handle_server_parameter(request) ==
    IF request.is_json
    THEN IF Kw(request.args, "server_id", None) \notin {None, <<>>}
         THEN Ret(request.args.server_id)
         ELSE JsonGet(request.json, "server_id", None)
    ELSE Ret(None)

\* force = request.json.get('force', False) if request.is_json else False
RequestForce(request) ==
    IF request.is_json THEN JsonGet(request.json, "force", JBool(FALSE))
    ELSE Ret(JBool(FALSE))

\* The method each per-server power endpoint calls on its service.
EndpointMethod(endpoint) ==
    CASE endpoint = "power_on" -> "power_on"
      [] endpoint = "power_off" -> "power_off"
      [] endpoint = "power_status" -> "get_power_status"

\* The handler after the lookup of its service: power_off reads force, then
\* each calls its method.
CallEndpoint(endpoint, service, force, oracle) ==
    IF endpoint = "power_off" /\ ~service.raised /\ force.raised
    THEN Step(force, <<>>, <<>>)
    ELSE CallOperation(service, EndpointMethod(endpoint),
                       IF endpoint = "power_off" THEN [force |-> force.val]
                       ELSE NoKwargs,
                       oracle)

\* The status and body of the response: 500 from the except-clause and for
\* a result without success, 200 otherwise.
HttpResponse(out) ==
    IF out.raised THEN [status |-> 500, body |-> [message |-> out.exc.msg]]
    ELSE IF "success" \in DOMAIN out.val /\ ~out.val.success
    THEN [status |-> 500, body |-> out.val]
    ELSE [status |-> 200, body |-> out.val]

Responded(st) == Step(Ret(HttpResponse(st.out)), st.calls, st.log)

\* server_id = handle_server_parameter(); service = get_server_service(server_id)
ServiceOfRequest(default_service, file, env, sid) ==
    IF sid.raised THEN sid ELSE get_server_service(default_service, file, env, sid.val)

HandleEndpoint(endpoint, request, oracle, sid, service) ==
    Handled("http", IF sid.raised THEN None ELSE sid.val, endpoint, request, oracle,
            service,
            Responded(CallEndpoint(endpoint, service, RequestForce(request), oracle)),
            <<>>)

\* bulk_power_off, once the multi-server service is known to exist.
HandleBulk(request, oracle, st) ==
    Handled("http", None, "bulk_power_off", request, oracle, Ret(NoService),
            Responded(st), IF "dispatch" \in DOMAIN st THEN st.dispatch ELSE <<>>)

bulk_power_off(mss, file, env, request, oracle, force) ==
    IF mss = NoService
    THEN Step(Raise([type |-> "", msg |-> <<"Multi-server service not available">>]),
              <<>>, <<>>)
    ELSE IF force.raised THEN Step(force, <<>>, <<>>)
    ELSE execute_on_all_servers(mss, file, env, "power_off", [force |-> force.val],
                                oracle)

\* Two servers b and a, b first; one server from the single-host variables;
\* a host list without a usable entry, which leaves both services unset.
HttpConfigs ==
    {<<AbsentFile, [UnsetEnv EXCEPT !["IPMI_HOSTS"] =
                       Join(<<Str("b"), Str("h2"), Str("u2"), Str("p2")>>, <<":">>)
                       \o <<",">>
                       \o Join(<<Str("a"), Str("h1"), Str("u1"), Str("p1")>>, <<":">>)]>>,
     <<AbsentFile, SingleEnv>>,
     <<AbsentFile, [UnsetEnv EXCEPT !["IPMI_HOSTS"] = Str("c")]>>}

QueryParameters ==
    {NoKwargs, [server_id |-> Str("a")], [server_id |-> Str("zz")], [server_id |-> <<>>]}

\* Bodies: objects without fields, with a server id, with a force that is
\* true, false, the string "false", the number 1, the number 0 or null, with
\* both fields; and a body that is no object.
JsonBodies ==
    {JsonObject(f) : f \in
        {NoKwargs, [server_id |-> Str("a")], [server_id |-> Str("b")],
         [server_id |-> Str("a"), force |-> JBool(TRUE)]}
        \cup {[force |-> v] : v \in {JBool(TRUE), JBool(FALSE), JStr(Str("false")),
                                     JNum(1), JNum(0), JNull}}}
    \cup {JsonArray}

\* A request without a JSON content type has no JSON body to read.
HttpRequests ==
    {Request(args, TRUE, json) : args \in QueryParameters, json \in JsonBodies}
    \cup {Request(args, FALSE, JsonObject(NoKwargs)) : args \in QueryParameters}

PerServerEndpoints == {"power_on", "power_off", "power_status"}

HttpOutcomes ==
    {ProcExit(0, <<"Chassis", " ", "Power", " ", "is", " ", "on", "\n">>, <<>>),
     ProcExit(1, <<>>, <<"Unable to establish IPMI session", "\n">>),
     ProcTimeout}

HttpOracles == [1..OracleLen -> HttpOutcomes]

InitHttp ==
    /\ \E c \in HttpConfigs : fs = c[1] /\ environ = c[2]
    /\ phase = "import"
    /\ multi_server_service = NoService
    /\ ipmi_service = NoService
    /\ last = NoRequest

\* A request to /power/on, /power/off or /power/status.
PerServerRequest ==
    /\ phase = "idle"
    /\ \E endpoint \in PerServerEndpoints, request \in HttpRequests,
          proc \in HttpOutcomes :
          last' = HandleEndpoint(endpoint, request, <<proc>>,
                      handle_server_parameter(request),
                      ServiceOfRequest(ipmi_service, fs, environ,
                                       handle_server_parameter(request)))
    /\ phase' = "responded"
    /\ UNCHANGED <<fs, environ, multi_server_service, ipmi_service>>

\* A request to /bulk/power/off.
BulkPowerOff ==
    /\ phase = "idle"
    /\ \E request \in HttpRequests, oracle \in HttpOracles :
          last' = HandleBulk(request, oracle,
                      bulk_power_off(multi_server_service, fs, environ, request, oracle,
                                     RequestForce(request)))
    /\ phase' = "responded"
    /\ UNCHANGED <<fs, environ, multi_server_service, ipmi_service>>

NextHttp == ImportController \/ PerServerRequest \/ BulkPowerOff \/ Respond

SpecHttp == InitHttp /\ [][NextHttp]_vars




----------------------------------------------------------------------------
(* What the specification says of a configuration (spec.md 4.1) *)

\* The source the registry is resolved from.
ConfigSource(file, env) ==
    IF file.exists
    THEN (IF ~file.wellformed THEN "malformed file"
          ELSE IF Has(file.json, SERVERS) THEN "file servers" ELSE "file single")
    ELSE IF Truthy(env["IPMI_HOSTS"]) THEN "env servers" ELSE "env single"

IsMultiSource(file, env) == ConfigSource(file, env) \in {"file servers", "env servers"}

IsSingleSource(file, env) == ConfigSource(file, env) \in {"file single", "env single"}

Resolves(file, env) == ~_load_config(file, env).raised

\* The server ids of the registry: the keys of a multi-server source, or
\* the single id "default".
RegistryIds(file, env) ==
    IF IsMultiSource(file, env)
    THEN Keys(_load_config(file, env).val)
    ELSE <<Str("default")>>

\* The operations of ServerOperations (spec.md 4.4) and their legacy aliases.
ServerOperations == Methods \ {"get_available_servers"}

\* The operations the controller broadcasts.
BroadcastOperations == {"power_on", "power_off", "get_sensor_data", "get_power_status"}

ValidKwargs(operation, kwargs) ==
    /\ DOMAIN kwargs \subseteq MethodParams(operation)
    /\ RequiredParams(operation) \subseteq DOMAIN kwargs

\* t is s without its leading and trailing whitespace.
IsTrimOf(t, s) ==
    \E i, j \in 0..Len(s) :
        /\ i + j <= Len(s)
        /\ t = SubSeq(s, i + 1, Len(s) - j)
        /\ \A m \in 1..i : s[m] \in Whitespace
        /\ \A m \in (Len(s) - j + 1)..Len(s) : s[m] \in Whitespace
        /\ (t = <<>> \/ (t[1] \notin Whitespace /\ t[Len(t)] \notin Whitespace))

----------------------------------------------------------------------------
(* Claims *)

\* The server a dispatch of the broadcast acted for: the id it asked for when
\* construction failed, the id of the service it constructed otherwise.
DispatchedFor(d) == IF d.service.raised THEN d.server_id ELSE d.service.val.server_id

\* What a server's operation gives when run alone, as a results entry.
RunAlone(server_id, operation, kwargs, oracle, k) ==
    LET service == IPMIService(fs, environ, server_id) IN
    IF service.raised THEN ExceptionEntry(service.exc, server_id)
    ELSE LET st == Invoke(service.val, operation, kwargs, oracle, k) IN
         IF st.out.raised THEN ExceptionEntry(st.out.exc, server_id) ELSE st.out.val

CallsBefore(i) ==
    LET RECURSIVE Sum(_)
        Sum(j) == IF j = 0 THEN 0 ELSE Len(last.dispatch[j].calls) + Sum(j - 1)
    IN  Sum(i - 1)

\* C1: a broadcast (of an operation the controller broadcasts) does not
\* raise, every server the dispatcher lists is dispatched exactly once and has
\* exactly one entry in results, and every entry is what that server's
\* operation gives when run alone, an exception being turned into a
\* success=false entry that carries its message.
C1_BroadcastIsolatesServers ==
    (last.kind = "broadcast" /\ last.operation \in BroadcastOperations
     /\ ValidKwargs(last.operation, last.kwargs)) =>
        /\ ~last.out.raised
        /\ \A s \in Range(multi_server_service.servers) :
              Cardinality({i \in 1..Len(last.dispatch) :
                              DispatchedFor(last.dispatch[i]) = s}) = 1
        /\ Keys(last.out.val.results) = multi_server_service.servers
        /\ \A i \in 1..Len(last.out.val.results) :
              last.out.val.results[i][2] =
                  RunAlone(last.out.val.results[i][1], last.operation, last.kwargs,
                           last.oracle, 1 + CallsBefore(i))

\* C2: in every FleetResult, successful is the number of entries of results
\* whose success is true.
C2_SuccessfulCountsTrueEntries ==
    (last.kind = "broadcast" /\ ~last.out.raised) =>
        last.out.val.successful =
            Cardinality({i \in 1..Len(last.out.val.results) :
                            last.out.val.results[i][2].success})

\* C2 witness: a broadcast over two servers of which exactly one succeeded.
C2_Witness ==
    /\ last.kind = "broadcast" /\ ~last.out.raised
    /\ Len(last.out.val.results) = 2
    /\ last.out.val.successful = 1
    /\ \E i \in 1..2 : ~last.out.val.results[i][2].success

\* C3: for a server the registry holds, no method of ServerOperations
\* raises, and when every subprocess fails the result is success=false.
C3_NoFailureEscapes ==
    (/\ last.kind = "operation"
     /\ last.operation \in ServerOperations
     /\ ValidKwargs(last.operation, last.kwargs)
     /\ ~last.service.raised
     /\ last.service.val /= NoService
     /\ (last.server_id = None \/ last.server_id \in Range(RegistryIds(fs, environ)))) =>
        /\ ~last.out.raised
        /\ (\A k \in 1..OracleLen :
               ~(last.oracle[k].kind = "exit" /\ last.oracle[k].rc = 0))
           => ~last.out.val.success

\* The methods that run exactly one command and return its result, with
\* fields added on success.
SingleCommandOperations == ServerOperations \ {"get_system_info", "check_health"}

\* C4: the result of a command is decided by what the subprocess did: exit 0
\* gives success with the trimmed stdout and no error; another exit code gives
\* failure with the trimmed stdout kept and the trimmed stderr as error; a
\* timeout gives failure, no output and "Command timed out"; any other failure
\* gives failure with its message as error.
C4_ResultFollowsOutcome ==
    (/\ last.kind = "operation"
     /\ last.operation \in SingleCommandOperations
     /\ ~last.out.raised
     /\ Len(last.calls) = 1) =>
        LET r == last.out.val
            proc == last.oracle[1]
        IN  CASE proc.kind = "exit" /\ proc.rc = 0 ->
                   r.success /\ IsTrimOf(r.output, proc.stdout) /\ r.error = None
              [] proc.kind = "exit" /\ proc.rc /= 0 ->
                   /\ ~r.success
                   /\ IsTrimOf(r.output, proc.stdout)
                   /\ IsTrimOf(r.error, proc.stderr)
              [] proc.kind = "timeout" ->
                   ~r.success /\ r.output = <<>> /\ r.error = <<"Command timed out">>
              [] OTHER ->
                   ~r.success /\ r.output = <<>> /\ r.error = proc.msg

\* C4 witness: a command that exited non-zero, its partial stdout kept.
C4_Witness ==
    /\ last.kind = "operation" /\ last.operation = "power_on"
    /\ ~last.out.raised /\ Len(last.calls) = 1
    /\ last.oracle[1].kind = "exit" /\ last.oracle[1].rc = 1
    /\ last.out.val.output = <<"partial">>
    /\ last.out.val.error = <<"Unable to establish IPMI session">>

\* A result names its server.
CarriesAttribution(r) == {"server_id", "hostname"} \subseteq DOMAIN r

\* C10: every result of an operation, and every entry of a fleet aggregate,
\* carries both server_id and hostname.
C10_ResultsCarryAttribution ==
    /\ (last.kind = "operation" /\ last.operation \in ServerOperations
        /\ ~last.out.raised) => CarriesAttribution(last.out.val)
    /\ (last.kind = "broadcast" /\ ~last.out.raised) =>
           \A i \in 1..Len(last.out.val.results) :
               CarriesAttribution(last.out.val.results[i][2])


\* C5: in single-server mode the list of server ids is ["default"], and
\* lookup("default") returns the profile of that entry.
C5_DefaultEntryIsFound ==
    (IsSingleSource(fs, environ) /\ Resolves(fs, environ)) =>
        /\ multi_server_service /= NoService =>
               multi_server_service.servers = <<Str("default")>>
        /\ (last.kind = "lookup" /\ last.server_id = Str("default")) =>
               /\ ~last.service.raised
               /\ last.service.val.config = DictV(last.loaded.val)

\* C6: lookup of a non-empty id that is not a key of the registry fails with
\* the unknown-server error and binds no profile.
C6_UnknownIdIsRejected ==
    (/\ last.kind = "lookup"
     /\ Truthy(last.server_id)
     /\ Resolves(fs, environ)
     /\ last.server_id \notin Range(RegistryIds(fs, environ))) =>
        last.service.raised /\ last.service.exc.type = "ValueError"

\* C7: lookup(None) returns the single entry in single-server mode and, for a
\* registry from a multi-server source, the first-inserted entry, whose id
\* becomes the server_id of the service.
C7_DefaultIsFirstEntry ==
    (last.kind = "lookup" /\ last.server_id = None /\ Resolves(fs, environ)) =>
        /\ IsSingleSource(fs, environ) =>
               ~last.service.raised /\ last.service.val.config = DictV(last.loaded.val)
        /\ (IsMultiSource(fs, environ) /\ last.loaded.val /= <<>>) =>
               /\ ~last.service.raised
               /\ last.service.val.config = last.loaded.val[1][2]
               /\ last.service.val.server_id = last.loaded.val[1][1]

\* The ids and hostnames of a servers mapping.
IdsAndHosts(servers) ==
    [i \in 1..Len(servers) |-> <<servers[i][1], Item(servers[i][2], HOSTNAME)>>]

\* C8: resolution follows a strict precedence.  With a file the registry
\* comes from the file alone and a file that does not parse is fatal; without
\* a file and with IPMI_HOSTS set it comes from that value (its ids and
\* hostnames do not depend on the single-server values); the three
\* single-server values form the registry only when neither is present.
C8_ResolutionPrecedence ==
    last.kind = "lookup" =>
        CASE fs.exists /\ ~fs.wellformed ->
               last.loaded.raised /\ last.service.raised
          [] fs.exists /\ fs.wellformed ->
               last.loaded = LoadConfigFromFile(fs)
          [] ~fs.exists /\ Truthy(environ["IPMI_HOSTS"]) ->
               /\ ~last.loaded.raised
               /\ last.loaded.val = _parse_multi_server_env(environ, environ["IPMI_HOSTS"])
               /\ IdsAndHosts(last.loaded.val) =
                      IdsAndHosts(_parse_multi_server_env(UnsetEnv, environ["IPMI_HOSTS"]))
          [] OTHER ->
               last.loaded = LoadConfigFromEnv([environ EXCEPT !["IPMI_HOSTS"] = None])

\* C8 witness: a malformed file beside a complete environment is fatal, and a
\* well-formed file beside a set IPMI_HOSTS decides the registry.
C8_Witness ==
    /\ last.kind = "lookup"
    /\ fs.exists /\ ~fs.wellformed
    /\ Truthy(environ["IPMI_HOSTS"])
    /\ environ["IPMI_HOST"] /= None /\ environ["IPMI_USER"] /= None
    /\ environ["IPMI_PASSWORD"] /= None
    /\ last.loaded.raised

\* C9: after startup no change of the file or the environment changes the
\* registry a later operation or broadcast uses.
C9_RegistryIsBuiltOnce ==
    ipmi_service /= NoService =>
        /\ (last.kind = "operation" /\ ~last.service.raised) =>
               last.service.val.servers_config = ipmi_service.servers_config
        /\ last.kind = "broadcast" =>
               \A i \in 1..Len(last.dispatch) :
                   ~last.dispatch[i].service.raised =>
                       last.dispatch[i].service.val.servers_config =
                           multi_server_service.base_service.servers_config

\* A service bound to a connection profile: hostname, username and password,
\* each a string.
BoundToProfile(service) ==
    /\ service.config.t = "dict"
    /\ \A i \in 1..Len(RequiredFields) :
          /\ Has(service.config.d, RequiredFields[i])
          /\ Get(service.config.d, RequiredFields[i]).t = "str"

\* The device strings that name one of pxe, disk, cdrom, bios, floppy, safe
\* when case is ignored.
ValidDeviceStrings ==
    {Str("pxe"), Str("PXE"), Str("Disk"), Str("cdrom"), Str("bios"), Str("floppy"),
     Str("Safe")}

\* The lower-case name of a valid device string.
LowerCaseName(device) ==
    CASE device = Str("PXE") -> Str("pxe")
      [] device = Str("Disk") -> Str("disk")
      [] device = Str("Safe") -> Str("safe")
      [] OTHER -> device

\* The words a call passed to the tool after the connection arguments.
CommandWords(call) == SubSeq(call.argv, 10, Len(call.argv))

IsSetBootDevice ==
    /\ last.kind = "operation" /\ last.operation = "set_boot_device"
    /\ "device" \in DOMAIN last.kwargs
    /\ ~last.service.raised /\ BoundToProfile(last.service.val)

\* C11: set_boot_device with a device that is none of the six, whatever
\* persistent is, returns a success=false result and starts no subprocess.
C11_InvalidDeviceFailsLocally ==
    (IsSetBootDevice /\ last.kwargs.device \notin ValidDeviceStrings) =>
        /\ ~last.out.raised
        /\ ~last.out.val.success
        /\ "error" \in DOMAIN last.out.val
        /\ last.calls = <<>>

\* C11 witness: USB with persistent=true was refused without a subprocess.
C11_Witness ==
    /\ IsSetBootDevice
    /\ last.kwargs.device = Str("USB")
    /\ "persistent" \in DOMAIN last.kwargs /\ last.kwargs.persistent = JBool(TRUE)
    /\ ~last.out.raised /\ ~last.out.val.success
    /\ last.calls = <<>>

\* C12: set_boot_device with a device that names one of the six in any case
\* starts one subprocess, whose command carries the lower-case device name.
C12_ValidDeviceIsLowerCased ==
    (IsSetBootDevice /\ last.kwargs.device \in ValidDeviceStrings) =>
        /\ Len(last.calls) = 1
        /\ Len(CommandWords(last.calls[1])) = 4
        /\ SubSeq(CommandWords(last.calls[1]), 1, 3) =
               <<Str("chassis"), Str("bootdev"), LowerCaseName(last.kwargs.device)>>

IsPowerOff ==
    /\ last.kind = "operation" /\ last.operation = "power_off"
    /\ "force" \in DOMAIN last.kwargs /\ last.kwargs.force.t = "bool"
    /\ ~last.service.raised /\ BoundToProfile(last.service.val)

\* C13: power_off starts exactly one subprocess: chassis power off when force
\* is true, chassis power soft when force is false.
C13_ForceSelectsTheCommand ==
    IsPowerOff =>
        /\ Len(last.calls) = 1
        /\ CommandWords(last.calls[1]) =
               (IF last.kwargs.force.b
                THEN <<Str("chassis"), Str("power"), Str("off")>>
                ELSE <<Str("chassis"), Str("power"), Str("soft")>>)

\* C13 witness: a forced power-off issued the hard command, once.
C13_Witness ==
    /\ IsPowerOff /\ last.kwargs.force.b
    /\ Len(last.calls) = 1
    /\ CommandWords(last.calls[1]) = <<Str("chassis"), Str("power"), Str("off")>>

\* The outputs of PowerOutputs and ProcOutcomes that hold "power is on" in
\* some case; an output that holds both phrases reads as on.
OutputsSayingOn ==
    {<<" ", "Chassis", " ", "Power", " ", "is", " ", "on", "\n">>,
     <<"Chassis", " ", "Power", " ", "is", " ", "on", "\n",
       "Last", " ", "power", " ", "is", " ", "off">>}

\* The outputs that hold "power is off" in some case and not "power is on".
OutputsSayingOff ==
    {<<"Chassis", " ", "Power", " ", "is", " ", "off", "\n">>,
     <<"CHASSIS", " ", "POWER", " ", "IS", " ", "OFF">>}

ExpectedPowerState(stdout) ==
    IF stdout \in OutputsSayingOn THEN Str("on")
    ELSE IF stdout \in OutputsSayingOff THEN Str("off")
    ELSE Str("unknown")

IsPowerStatus ==
    /\ last.kind = "operation" /\ last.operation = "get_power_status"
    /\ ~last.service.raised /\ BoundToProfile(last.service.val)

\* C14: get_power_status never raises, and when its command succeeded the
\* power state is on for an output holding "power is on" in any case, off for
\* one holding "power is off", unknown for any other output.
C14_PowerStateFollowsOutput ==
    IsPowerStatus =>
        /\ ~last.out.raised
        /\ last.out.val.success =>
               /\ "power_state" \in DOMAIN last.out.val
               /\ last.out.val.power_state = ExpectedPowerState(last.oracle[1].stdout)

\* C14 witness: an upper-case "POWER IS OFF" was read as off.
C14_Witness ==
    /\ IsPowerStatus
    /\ last.oracle[1].stdout = <<"CHASSIS", " ", "POWER", " ", "IS", " ", "OFF">>
    /\ ~last.out.raised /\ last.out.val.success
    /\ last.out.val.power_state = Str("off")

IsRun ==
    /\ last.kind = "run"
    /\ ~last.service.raised /\ BoundToProfile(last.service.val)

Passwords == {Str("p0"), Str("p1"), <<"p 2">>, Str("s3cret")}

\* The same service with another password in its profile.
WithPassword(service, password) ==
    [service EXCEPT !.config = DictV(Put(service.config.d, PASSWORD, StrV(password)))]

\* C15: what an invocation logs does not depend on the password of the
\* profile, and no logged line holds the password.
C15_LogHidesPassword ==
    IsRun =>
        /\ \A password \in Passwords :
              _execute_ipmi_command(WithPassword(last.service.val, password),
                                    last.kwargs.command, last.kwargs.timeout,
                                    last.oracle[1]).log = last.log
        /\ \A i \in 1..Len(last.log) : \A j \in 1..Len(last.log[i]) :
              <<last.log[i][j]>> /= Item(last.service.val.config, PASSWORD)

\* C15 witness: an invocation with the password p1 in its argument vector
\* logged its command line with the marker in place of the password.
C15_Witness ==
    /\ IsRun
    /\ Len(last.calls) = 1 /\ last.calls[1].argv[9] = Str("p1")
    /\ Len(last.log) >= 1
    /\ \E j \in 1..Len(last.log[1]) : last.log[1][j] = "[HIDDEN]"

\* The words of each argument string, split on whitespace.
ExpectedWords(command) ==
    CASE command = <<"sensor">> -> <<Str("sensor")>>
      [] command = <<"chassis", " ", "power", " ", "status">> ->
            <<Str("chassis"), Str("power"), Str("status")>>
      [] command = <<" ", "sel", " ", " ", "list", "\t", "5", "\n">> ->
            <<Str("sel"), Str("list"), Str("5")>>
      [] command = <<"user", " ", "set", " ", "password", " ", "[HIDDEN]">> ->
            <<Str("user"), Str("set"), Str("password"), Str("[HIDDEN]")>>
      [] OTHER -> <<>>

\* C16: every invocation of the tool has the argument vector ipmitool -I
\* lanplus -H hostname -U username -P password followed by the words of the
\* argument string, and nothing else.
C16_ArgumentVectorIsFixed ==
    IsRun =>
        /\ Len(last.calls) = 1
        /\ last.calls[1].argv =
               <<Str("ipmitool"), Str("-I"), Str("lanplus"),
                 Str("-H"), Item(last.service.val.config, HOSTNAME),
                 Str("-U"), Item(last.service.val.config, USERNAME),
                 Str("-P"), Item(last.service.val.config, PASSWORD)>>
               \o ExpectedWords(last.kwargs.command)

\* C16 witness: an argument string with runs of blanks, a tab and a newline
\* gave three words after the nine connection arguments.
C16_Witness ==
    /\ IsRun
    /\ last.kwargs.command = <<" ", "sel", " ", " ", "list", "\t", "5", "\n">>
    /\ Len(last.calls) = 1
    /\ CommandWords(last.calls[1]) = <<Str("sel"), Str("list"), Str("5")>>
    /\ last.calls[1].argv[9] = <<"p 2">>

\* C17: a broadcast of a name that is no operation of ServerOperations does
\* not raise, starts no subprocess, and gives every server whose service was
\* constructed a success=false entry saying the operation is not supported.
C17_UnknownOperationIsSoftFailure ==
    (last.kind = "broadcast" /\ last.operation \notin ServerOperations) =>
        /\ ~last.out.raised
        /\ last.calls = <<>>
        /\ \A i \in 1..Len(last.dispatch) :
              ~last.dispatch[i].service.raised =>
                  LET entry == Get(last.out.val.results, last.dispatch[i].server_id)
                  IN  /\ ~entry.success
                      /\ entry.error = <<"Operation '", last.operation, "' not supported">>

\* C18: total_servers of a fleet result is the number of entries of the
\* registry the configuration resolves to.
C18_TotalIsRegistrySize ==
    (last.kind = "broadcast" /\ ~last.out.raised) =>
        last.out.val.total_servers = Len(RegistryIds(fs, environ))

\* The parts of the i-th comma-separated entry of a multi-server value.
EntryParts(value, i) == Split(Strip(Split(value, ",")[i]), ":")

IsEnvLookup ==
    /\ last.kind = "lookup"
    /\ ConfigSource(fs, environ) = "env servers"

\* C19: when the registry comes from the multi-server environment value,
\* looking up the id of a 4-part entry id:host:user:pass gives a profile
\* whose hostname is host.
C19_LookupFindsEntryHost ==
    IsEnvLookup =>
        \A i \in 1..Len(Split(environ["IPMI_HOSTS"], ",")) :
            LET parts == EntryParts(environ["IPMI_HOSTS"], i) IN
            (Len(parts) = 4 /\ parts[1] = last.server_id) =>
                /\ ~last.service.raised
                /\ HasItem(last.service.val.config, HOSTNAME)
                /\ Item(last.service.val.config, HOSTNAME) = parts[2]

\* C20: in the registry built from the multi-server environment value, a
\* 2-part entry id:host has the username of IPMI_USER, or admin when that is
\* unset, and the password of IPMI_PASSWORD, or admin when that is unset.
C20_TwoPartEntryDefaults ==
    (IsEnvLookup /\ ~last.loaded.raised) =>
        \A i \in 1..Len(Split(environ["IPMI_HOSTS"], ",")) :
            LET parts == EntryParts(environ["IPMI_HOSTS"], i) IN
            Len(parts) = 2 =>
                /\ Has(last.loaded.val, parts[1])
                /\ Item(Get(last.loaded.val, parts[1]), HOSTNAME) = parts[2]
                /\ Item(Get(last.loaded.val, parts[1]), USERNAME) =
                       (IF environ["IPMI_USER"] = None THEN Str("admin")
                        ELSE environ["IPMI_USER"])
                /\ Item(Get(last.loaded.val, parts[1]), PASSWORD) =
                       (IF environ["IPMI_PASSWORD"] = None THEN Str("admin")
                        ELSE environ["IPMI_PASSWORD"])

\* C20 witness: with IPMI_USER set and IPMI_PASSWORD unset, the entry b:h2
\* got the username of the environment and the password admin.
C20_Witness ==
    /\ IsEnvLookup /\ ~last.loaded.raised
    /\ environ["IPMI_USER"] = Str("u0") /\ environ["IPMI_PASSWORD"] = None
    /\ Has(last.loaded.val, Str("b"))
    /\ Item(Get(last.loaded.val, Str("b")), USERNAME) = Str("u0")
    /\ Item(Get(last.loaded.val, Str("b")), PASSWORD) = Str("admin")

\* C21: when the registry comes from the multi-server environment value,
\* building it and its default service raises nothing, and every server of
\* the registry comes from an entry of 2 or of 4 parts.
C21_MalformedEntriesAreSkipped ==
    (IsEnvLookup /\ last.server_id = None) =>
        /\ ~last.loaded.raised
        /\ ~last.service.raised
        /\ \A k \in 1..Len(last.loaded.val) :
              \E i \in 1..Len(Split(environ["IPMI_HOSTS"], ",")) :
                  LET parts == EntryParts(environ["IPMI_HOSTS"], i) IN
                  Len(parts) \in {2, 4} /\ parts[1] = last.loaded.val[k][1]

IsSystemInfo ==
    /\ last.kind = "operation" /\ last.operation = "get_system_info"
    /\ ~last.service.raised /\ BoundToProfile(last.service.val)

\* The words of the four commands of get_system_info, in the order of issue.
ExpectedInfoWords ==
    <<<<Str("fru")>>,
      <<Str("bmc"), Str("info")>>,
      <<Str("chassis"), Str("status")>>,
      <<Str("fru"), Str("print")>>>>

\* C22: get_system_info never raises and always starts its four commands,
\* in order, whatever the earlier ones did; it returns the four results, each
\* with the success of its own command, and succeeds exactly when all four
\* did.
C22_SystemInfoRunsAllFour ==
    IsSystemInfo =>
        /\ ~last.out.raised
        /\ Len(last.calls) = 4
        /\ \A i \in 1..4 : CommandWords(last.calls[i]) = ExpectedInfoWords[i]
        /\ Len(last.out.val.system_info) = 4
        /\ \A i \in 1..4 :
              last.out.val.system_info[i][2].success =
                  (last.oracle[i].kind = "exit" /\ last.oracle[i].rc = 0)
        /\ last.out.val.success =
               (\A i \in 1..4 : last.oracle[i].kind = "exit" /\ last.oracle[i].rc = 0)

\* C22 witness: the second command failed, the other three were issued and
\* succeeded, and the whole did not succeed.
C22_Witness ==
    /\ IsSystemInfo
    /\ last.oracle[2].kind = "exit" /\ last.oracle[2].rc = 1
    /\ \A i \in {1, 3, 4} : last.oracle[i].kind = "exit" /\ last.oracle[i].rc = 0
    /\ ~last.out.raised /\ Len(last.calls) = 4
    /\ ~last.out.val.success
    /\ last.out.val.system_info[4][2].success

IsHealth ==
    /\ last.kind = "operation" /\ last.operation = "check_health"
    /\ ~last.service.raised /\ BoundToProfile(last.service.val)

\* The k-th subprocess of the request exits with 0.
ProbeSucceeds(k) == last.oracle[k].kind = "exit" /\ last.oracle[k].rc = 0

\* C23: check_health never raises and succeeds exactly when its chassis
\* status probe does. The power status probe is started only after a
\* successful chassis status probe, and always then; when it succeeds its
\* state is in the details, and when it fails the details carry no state and
\* the check still succeeds.
C23_HealthFollowsChassisProbe ==
    IsHealth =>
        /\ ~last.out.raised
        /\ Len(last.calls) >= 1
        /\ CommandWords(last.calls[1]) = <<Str("chassis"), Str("status")>>
        /\ last.out.val.success = ProbeSucceeds(1)
        /\ ~ProbeSucceeds(1) => Len(last.calls) = 1
        /\ ProbeSucceeds(1) =>
               /\ Len(last.calls) = 2
               /\ CommandWords(last.calls[2]) =
                      <<Str("chassis"), Str("power"), Str("status")>>
               /\ IF ProbeSucceeds(2)
                  THEN /\ "power_status" \in DOMAIN last.out.val.details
                       /\ last.out.val.details.power_status =
                              ExpectedPowerState(last.oracle[2].stdout)
                  ELSE "power_status" \notin DOMAIN last.out.val.details

\* C23 witness: the chassis probe succeeded, the power probe was started and
\* failed, and the check succeeded without a power state.
C23_Witness ==
    /\ IsHealth
    /\ ProbeSucceeds(1) /\ ~ProbeSucceeds(2)
    /\ Len(last.calls) = 2
    /\ ~last.out.raised /\ last.out.val.success
    /\ "power_status" \notin DOMAIN last.out.val.details

IsEvents ==
    /\ last.kind = "operation" /\ last.operation = "get_system_event_log"
    /\ "limit" \in DOMAIN last.kwargs
    /\ ~last.service.raised /\ BoundToProfile(last.service.val)

\* C24: get_system_event_log never raises, and when its command succeeded
\* it returns at most limit entries (none for a limit below one), each taken
\* from one of the first limit lines of the output, a line of four fields or
\* more.
C24_EntriesWithinLimit ==
    IsEvents =>
        /\ ~last.out.raised
        /\ last.out.val.success =>
               LET lines == Split(Strip(last.oracle[1].stdout), "\n")
                   events == last.out.val.events
               IN  /\ Len(events) <= (IF last.kwargs.limit < 0 THEN 0
                                      ELSE last.kwargs.limit)
                   /\ last.out.val.event_count = Len(events)
                   /\ \A k \in 1..Len(events) :
                         \E i \in 1..Len(lines) :
                             /\ i <= last.kwargs.limit
                             /\ Len(Split(lines[i], "|")) >= 4
                             /\ Strip(Split(lines[i], "|")[1]) = events[k].id

IsSensors ==
    /\ last.kind = "operation" /\ last.operation = "get_sensor_data"
    /\ ~last.service.raised /\ BoundToProfile(last.service.val)

\* A reading written out: its four leading fields and its six thresholds.
Reading(name, value, unit, status, t) ==
    [name |-> name, value |-> value, unit |-> unit, status |-> status,
     lower_nr |-> t[1], lower_cr |-> t[2], lower_nc |-> t[3],
     upper_nc |-> t[4], upper_cr |-> t[5], upper_nr |-> t[6]]

NoThresholds == <<<<>>, <<>>, <<>>, <<>>, <<>>, <<>>>>

\* The readings of each output of SensorOutcomes, line by line: one for each
\* line of three fields or more, with the empty string for a missing field.
ExpectedSensors(stdout) ==
    CASE stdout = <<"Fan1", " ", "|", " ", "1200", " ", "|", " ", "RPM", " ", "|", " ",
                    "ok", "\n", "\n", "x", " ", "|", " ", "y", "\n",
                    "V", "|", "12", "|", "Volts">> ->
             <<Reading(Str("Fan1"), Str("1200"), Str("RPM"), Str("ok"), NoThresholds),
               Reading(Str("V"), Str("12"), Str("Volts"), <<>>, NoThresholds)>>
      [] stdout = <<"|", "|">> ->
             <<Reading(<<>>, <<>>, <<>>, <<>>, NoThresholds)>>
      [] stdout = <<"n", "|", "v", "|", "u", "|", "s", "|", "1", "|", "2", "|", "3", "|",
                    "4", "|", "5", "|", "6", "|", "extra">> ->
             <<Reading(Str("n"), Str("v"), Str("u"), Str("s"),
                       <<Str("1"), Str("2"), Str("3"), Str("4"), Str("5"), Str("6")>>)>>
      [] stdout = <<"CPU Temp", " ", "|", " ", "40", " ", "|", " ", "degrees C", "\n",
                    "junk">> ->
             <<Reading(Str("CPU Temp"), Str("40"), Str("degrees C"), <<>>, NoThresholds)>>
      [] OTHER -> <<>>

\* C25: get_sensor_data never raises, and when its command succeeded its
\* readings are, in the order of the lines, one for each line of three
\* pipe-delimited fields or more and none for any other line; a field the
\* line does not have is the empty string.
C25_OneReadingPerSensorLine ==
    IsSensors =>
        /\ ~last.out.raised
        /\ last.out.val.success =>
               /\ last.out.val.sensors = ExpectedSensors(last.oracle[1].stdout)
               /\ last.out.val.sensor_count = Len(last.out.val.sensors)

\* C25 witness: of four lines, the first and the last gave the two readings,
\* the last one without a status.
C25_Witness ==
    /\ IsSensors
    /\ ~last.out.raised /\ last.out.val.success
    /\ Len(Split(last.oracle[1].stdout, "\n")) = 4
    /\ Len(last.out.val.sensors) = 2
    /\ last.out.val.sensors[1].name = Str("Fan1")
    /\ last.out.val.sensors[2].name = Str("V")
    /\ last.out.val.sensors[2].status = <<>>

IsPerServerRequest == last.kind = "http" /\ last.operation \in PerServerEndpoints

\* The server ids a request supplies: the query parameter, and the server_id
\* of its JSON body.
SuppliedServerIds(request) ==
    {request.args[n] : n \in DOMAIN request.args \cap {"server_id"}}
    \cup (IF request.is_json /\ request.json.kind = "object"
          THEN {request.json.fields[n] :
                    n \in DOMAIN request.json.fields \cap {"server_id"}}
          ELSE {})

\* The hosts of the servers of HttpConfigs.
HostOfServer(id) ==
    CASE id = Str("a") -> Str("h1")
      [] id = Str("b") -> Str("h2")
      [] OTHER -> Str("h0")

\* C26: a request to a per-server endpoint that supplies the id of a server
\* of the registry, as query parameter or in its JSON body, is served by that
\* server: the handler's service is bound to a supplied id, and its
\* subprocess addresses that server's host.
C26_SuppliedIdSelectsServer ==
    (/\ IsPerServerRequest
     /\ SuppliedServerIds(last.kwargs) /= {}
     /\ \A id \in SuppliedServerIds(last.kwargs) :
           \E i \in 1..Len(RegistryIds(fs, environ)) : RegistryIds(fs, environ)[i] = id)
    =>  /\ ~last.service.raised
        /\ last.service.val /= NoService
        /\ last.service.val.server_id \in SuppliedServerIds(last.kwargs)
        /\ \A i \in 1..Len(last.calls) :
              last.calls[i].argv[5] = HostOfServer(last.service.val.server_id)

IsPowerOffRequest ==
    last.kind = "http" /\ last.operation \in {"power_off", "bulk_power_off"}

\* The body of the request is a JSON object whose force is the boolean true.
ForceIsTrue(request) ==
    /\ request.is_json /\ request.json.kind = "object"
    /\ "force" \in DOMAIN request.json.fields
    /\ request.json.fields.force = JBool(TRUE)

\* C27: every subprocess of a request to /power/off or /bulk/power/off runs
\* chassis power off when the force of the body is the boolean true, and
\* chassis power soft when force is absent or any other JSON value.
C27_HardOffOnlyForTrue ==
    IsPowerOffRequest =>
        \A i \in 1..Len(last.calls) :
            CommandWords(last.calls[i]) =
                (IF ForceIsTrue(last.kwargs)
                 THEN <<Str("chassis"), Str("power"), Str("off")>>
                 ELSE <<Str("chassis"), Str("power"), Str("soft")>>)

====
